---- MODULE Spec2Model ----
(***************************************************************************)
(* Model of main.py: a Telegram bot (aiogram) that lets approved users     *)
(* claim and release subdomains, backed by three sqlite tables and the     *)
(* Cloudflare DNS API.                                                     *)
(*                                                                         *)
(* Strings are sequences of one-character strings, so that strip, lower,   *)
(* split, startswith and the f-string formats are computed as Python       *)
(* computes them.                                                          *)
(*                                                                         *)
(* Scheduling.  The dispatcher runs every update as an asyncio task.  A    *)
(* task is pre-empted only where it awaits network I/O of the chat         *)
(* transport (message.answer, callback.answer, bot.send_message): the      *)
(* sqlite calls and the Cloudflare client calls are synchronous, and the   *)
(* awaits on the in-memory FSM storage never suspend.  An action of the    *)
(* model is therefore one maximal run of a task between two such awaits:   *)
(* the first segment of an update runs auth_middleware, the routing and    *)
(* the handler up to its first answer; Resume runs what a handler does     *)
(* after that answer.  Sending a message changes no state of the program,  *)
(* so a tail of a handler that only sends messages is folded into the      *)
(* segment before it.                                                      *)
(*                                                                         *)
(* The DNS client (cf / cloudflare in the file) and the chat transport are *)
(* external: every DNS call either returns or raises, chosen               *)
(* nondeterministically; chat sends are taken to succeed.                  *)
(***************************************************************************)
EXTENDS Integers, Sequences, FiniteSets, Bags, TLC

(***************************************************************************)
(* Bounds of the model.                                                    *)
(***************************************************************************)
\* number of handler continuations that may be suspended at an await at once
MaxTasks == 2
\* rows the logs table may hold
MaxLog == 2

(***************************************************************************)
(* Python string operations.                                               *)
(***************************************************************************)
Whitespace == {" ", "\t", "\n"}

UpperToLower == [ch \in {"A", "B"} |-> IF ch = "A" THEN "a" ELSE "b"]

\* the name taken as typed, .lower() forgotten
Lower_Identity(s) == s

\* str.lower()
Lower(s) == [i \in 1..Len(s) |-> IF s[i] \in DOMAIN UpperToLower
                                  THEN UpperToLower[s[i]] ELSE s[i]]

RECURSIVE LStrip(_)
LStrip(s) == IF s # <<>> /\ Head(s) \in Whitespace THEN LStrip(Tail(s)) ELSE s

RECURSIVE RStrip(_)
RStrip(s) == IF s # <<>> /\ s[Len(s)] \in Whitespace
             THEN RStrip(SubSeq(s, 1, Len(s) - 1)) ELSE s

\* str.strip()
Strip(s) == RStrip(LStrip(s))

\* str.startswith(p)
StartsWith(s, p) == Len(s) >= Len(p) /\ SubSeq(s, 1, Len(p)) = p

\* position of the first sep in s, 0 when there is none
RECURSIVE FindChar(_, _, _)
FindChar(s, sep, i) == IF i > Len(s) THEN 0
                       ELSE IF s[i] = sep THEN i ELSE FindChar(s, sep, i + 1)

\* str.split(sep) for a one-character sep: the list of parts, empty parts kept
RECURSIVE Split(_, _)
Split(s, sep) == LET k == FindChar(s, sep, 1)
                 IN IF k = 0 THEN <<s>>
                    ELSE <<SubSeq(s, 1, k - 1)>> \o Split(SubSeq(s, k + 1, Len(s)), sep)

\* the first whitespace of s at or after i, 0 when none
RECURSIVE FindWS(_, _)
FindWS(s, i) == IF i > Len(s) THEN 0
                ELSE IF s[i] \in Whitespace THEN i ELSE FindWS(s, i + 1)

\* str.split(): split on runs of whitespace, no empty parts
RECURSIVE SplitWS(_)
SplitWS(s) == LET t == LStrip(s)
                  k == FindWS(t, 1)
              IN IF t = <<>> THEN <<>>
                 ELSE IF k = 0 THEN <<t>>
                 ELSE <<SubSeq(t, 1, k - 1)>> \o SplitWS(SubSeq(t, k, Len(t)))

DigitValue == [ch \in {"0", "1", "2", "3", "4", "5", "6", "7", "8", "9"} |->
                 CASE ch = "0" -> 0 [] ch = "1" -> 1 [] ch = "2" -> 2 [] ch = "3" -> 3
                   [] ch = "4" -> 4 [] ch = "5" -> 5 [] ch = "6" -> 6 [] ch = "7" -> 7
                   [] ch = "8" -> 8 [] ch = "9" -> 9]

RECURSIVE DigitsValue(_, _)
DigitsValue(s, acc) == IF s = <<>> THEN acc
                       ELSE DigitsValue(Tail(s), 10 * acc + DigitValue[Head(s)])

\* int(s) of a decimal literal: ok is FALSE where Python raises ValueError
ParseInt(s) == IF s # <<>> /\ \A i \in 1..Len(s) : s[i] \in DOMAIN DigitValue
               THEN [ok |-> TRUE, val |-> DigitsValue(s, 0)]
               ELSE [ok |-> FALSE, val |-> 0]

(***************************************************************************)
(* Configuration and the external world.                                   *)
(***************************************************************************)
\* the identities that send updates
Users == {1, 2, 3}

\* the identities that take part in the claim and release conversations
Claimers == {1, 2}

\* ADMIN_IDS, from the environment
ADMIN_IDS == <<1>>

\* the zones the DNS provider lists: cf.zones.get()
Zones == << [id |-> <<"z">>, name |-> <<"x", ".", "y">>] >>

\* str(e) of the exception a failing DNS call raises
CfError == <<"b", "o", "o", "m">>

\* the texts of the messages users send
T_start == <<"/", "s", "t", "a", "r", "t">>
T_new == <<"/", "n", "e", "w">>
T_delete == <<"/", "d", "e", "l", "e", "t", "e">>
T_approve2 == <<"/", "a", "p", "p", "r", "o", "v", "e", " ", "2">>
T_approveBad == <<"/", "a", "p", "p", "r", "o", "v", "e", " ", "b">>
T_nameA == <<" ", "A">>
T_nameAB == <<"a", "_", "b">>

MessageTexts == {T_start, T_new, T_delete, T_approve2, T_approveBad, T_nameA, T_nameAB}

\* the callback data of the inline buttons the bot has sent (lines 90, 162)
P_domain == <<"d", "o", "m", "a", "i", "n", "_">>
P_delete == <<"d", "e", "l", "e", "t", "e", "_">>
Underscore == "_"

\* f"domain_{domain['id']}"
DomainButton(zone_id) == P_domain \o zone_id

\* f"delete_{sub}_{domain}"
DeleteButton(sub, domain) == P_delete \o sub \o <<Underscore>> \o domain

\* f"{subdomain}.{domain}"
FullDomain(subdomain, domain) == subdomain \o <<".">> \o domain

\* f"Created {full_domain}", f"Deleted {sub}.{domain}"
CreatedText(full_domain) == <<"C", "r", "e", "a", "t", "e", "d", " ">> \o full_domain
DeletedText(full_domain) == <<"D", "e", "l", "e", "t", "e", "d", " ">> \o full_domain

\* the names whose delete buttons users press
ButtonNames == {<<"a">>, <<"a", "_", "b">>}

CallbackDatas == {DomainButton(Zones[i].id) : i \in 1..Len(Zones)}
                 \cup {DeleteButton(n, Zones[i].name) : n \in ButtonNames, i \in 1..Len(Zones)}

DigitChar == <<"0", "1", "2", "3", "4", "5", "6", "7", "8", "9">>

\* str(n) of a natural number, as the f-strings format a user id
RECURSIVE IntToStr(_)
IntToStr(n) == IF n < 10 THEN <<DigitChar[n + 1]>>
               ELSE IntToStr(n \div 10) \o <<DigitChar[(n % 10) + 1]>>

(***************************************************************************)
(* The sqlite tables (lines 26-40) and the statements run on them.  A      *)
(* table is the set of its rows; logs, whose key is AUTOINCREMENT, is the  *)
(* sequence of its rows in id order.                                       *)
(***************************************************************************)
\* SELECT status FROM users WHERE user_id=?
\* the status query with its WHERE clause left out
SelectStatus_AllRows(tbl, uid) == tbl

SelectStatus(tbl, uid) == {r \in tbl : r.user_id = uid}

\* INSERT INTO users (user_id) VALUES (?): status takes its DEFAULT; the
\* PRIMARY KEY refuses a second row of the same user_id
InsertUser(tbl, uid) ==
    IF \E r \in tbl : r.user_id = uid
    THEN [ok |-> FALSE, tbl |-> tbl]
    ELSE [ok |-> TRUE, tbl |-> tbl \cup {[user_id |-> uid, status |-> "pending"]}]

\* UPDATE users SET status="approved" WHERE user_id=?
\* INSERT OR REPLACE in place of UPDATE: a row is written whether or not
\* one was there
UpdateApproved_Upsert(tbl, uid) ==
    {r \in tbl : r.user_id # uid} \cup {[user_id |-> uid, status |-> "approved"]}

UpdateApproved(tbl, uid) ==
    {IF r.user_id = uid THEN [r EXCEPT !.status = "approved"] ELSE r : r \in tbl}

\* the availability query left out: the INSERT alone guards the key
SelectSub_Skipped(tbl, sub, domain) == {}

\* the availability query with its two parameters bound in the wrong order
SelectSub_Swapped(tbl, sub, domain) ==
    {r \in tbl : r.subdomain = domain /\ r.domain = sub}

\* SELECT * FROM subdomains WHERE subdomain=? AND domain=?
SelectSub(tbl, sub, domain) == {r \in tbl : r.subdomain = sub /\ r.domain = domain}

\* INSERT INTO subdomains VALUES (?, ?, ?), under PRIMARY KEY (subdomain, domain)
InsertSub(tbl, sub, domain, uid) ==
    IF \E r \in tbl : r.subdomain = sub /\ r.domain = domain
    THEN [ok |-> FALSE, tbl |-> tbl]
    ELSE [ok |-> TRUE,
          tbl |-> tbl \cup {[subdomain |-> sub, domain |-> domain, user_id |-> uid]}]

\* DELETE FROM subdomains WHERE subdomain=? AND domain=? AND user_id=?
\* the DELETE with a rowcount that counts the rows of the name, not the
\* rows removed
DeleteSub_NameCount(tbl, sub, domain, uid) ==
    LET hit == {r \in tbl : r.subdomain = sub /\ r.domain = domain /\ r.user_id = uid}
    IN [rowcount |-> Cardinality({r \in tbl : r.subdomain = sub /\ r.domain = domain}),
        tbl |-> tbl \ hit]

DeleteSub(tbl, sub, domain, uid) ==
    LET hit == {r \in tbl : r.subdomain = sub /\ r.domain = domain /\ r.user_id = uid}
    IN [rowcount |-> Cardinality(hit), tbl |-> tbl \ hit]

\* SELECT subdomain, domain FROM subdomains WHERE user_id=?
SelectSubsOf(tbl, uid) == {r \in tbl : r.user_id = uid}

\* log_activity: INSERT INTO logs (user_id, activity, timestamp)
\* the entry written over the table instead of added to it
LogInsert_Overwrite(tbl, uid, action) == << [user_id |-> uid, activity |-> action] >>

LogInsert(tbl, uid, action) == Append(tbl, [user_id |-> uid, activity |-> action])

\* str(e) of sqlite3.IntegrityError
DbError == <<"U", "N", "I", "Q", "U", "E">>

(***************************************************************************)
(* The per-conversation FSM context (aiogram MemoryStorage).               *)
(***************************************************************************)
NoData == [has |-> FALSE, zone_id |-> <<>>, domain |-> <<>>]
NoSession == [state |-> "None", data |-> NoData]

\* state.set_state(st)
SetState(ctx, uid, st) == [ctx EXCEPT ![uid].state = st]

\* state.update_data(zone_id=..., domain=...)
UpdateData(ctx, uid, zone_id, domain) ==
    [ctx EXCEPT ![uid].data = [has |-> TRUE, zone_id |-> zone_id, domain |-> domain]]

\* state.set_state(None) in place of state.clear(): the data stays
ClearState_KeepData(ctx, uid) == [ctx EXCEPT ![uid].state = "None"]

\* state.clear(): state and data both reset
ClearState(ctx, uid) == [ctx EXCEPT ![uid] = NoSession]

(***************************************************************************)
(* Routing: the filters of the handlers, tried in registration order.      *)
(***************************************************************************)
\* Command(cmd): the first word of the text is "/" + cmd
IsCommand(text, cmd) ==
    LET toks == SplitWS(text)
    IN toks # <<>> /\ toks[1] = <<"/">> \o cmd

RouteMessage(text, st) ==
    IF IsCommand(text, <<"s", "t", "a", "r", "t">>) THEN "start"
    ELSE IF IsCommand(text, <<"n", "e", "w">>) THEN "select_domain"
    ELSE IF st = "enter_subdomain" THEN "create_subdomain"
    ELSE IF IsCommand(text, <<"d", "e", "l", "e", "t", "e">>) THEN "delete_subdomain"
    ELSE IF IsCommand(text, <<"a", "p", "p", "r", "o", "v", "e">>) THEN "approve_user"
    ELSE "unhandled"

RouteCallback(data) ==
    IF StartsWith(data, P_domain) THEN "enter_subdomain"
    ELSE IF StartsWith(data, P_delete) THEN "confirm_delete"
    ELSE "unhandled"

(***************************************************************************)
(* State.                                                                  *)
(***************************************************************************)
VARIABLES
    users,       \* table users: rows [user_id, status]
    subdomains,  \* table subdomains: rows [subdomain, domain, user_id]
    logs,        \* table logs
    dns,         \* the provider's records: [zone, name]
    fsm,         \* FSM context of each user: [state, data]
    tasks,       \* bag of handler continuations suspended at an await
    disk         \* table subdomains as of the last conn.commit()

vars == <<users, subdomains, logs, dns, fsm, tasks, disk>>

Task(pc, uid, name) == [pc |-> pc, user |-> uid, name |-> name]
NoTask == Task("none", 0, <<>>)

\* one thing a handler did: a statement, a DNS call, a message sent, a raise
Ev(op, who, s) == [op |-> op, who |-> who, s |-> s]

\* what the first segment of an update leaves: what the gate decided, the
\* handler that ran, the tables, the records and the sessions after it, the
\* continuation it suspends in, what it did (in order) and the buttons it sent
Stay(handler, trace) ==
    [gate |-> "forward", handler |-> handler, users |-> users, subdomains |-> subdomains,
     dns |-> dns, fsm |-> fsm, spawn |-> NoTask, trace |-> trace, buttons |-> {}]

\* the contents table users may have over the identities in ids
UserTables(ids) ==
    {{[user_id |-> u, status |-> f[u]] : u \in {x \in ids : f[x] # "none"}} :
        f \in [ids -> {"none", "pending", "approved"}]}

\* the database file outlives the process (CREATE TABLE IF NOT EXISTS): the
\* users table starts with whatever rows the operator left in it
Init ==
    /\ users \in UserTables(Users)
    /\ subdomains = {}
    /\ logs = <<>>
    /\ dns = {}
    /\ fsm = [u \in Users |-> NoSession]
    /\ tasks = EmptyBag
    /\ disk = {}

(***************************************************************************)
(* Handlers, first segment: from the routing to the first answer.  c is    *)
(* the DNS call of the handler that raises (1 the first, 2 the second,     *)
(* 3 the third), 0 when none does.                                         *)
(***************************************************************************)
\* start (lines 71-79)
start(uid, text) == Stay("start", << Ev("answer:help", uid, <<>>) >>)

\* no handler's filter matches: the update is dropped
unhandled(uid, input) == Stay("unhandled", <<>>)

\* select_domain (lines 82-97) up to message.answer
select_domain(uid, text, c) ==
    IF c = 1
    THEN Stay("select_domain", << Ev("cf.zones.get", uid, <<>>),
                                  Ev("raise", uid, CfError) >>)
    ELSE [Stay("select_domain", << Ev("cf.zones.get", uid, <<>>),
                                   Ev("answer:select_domain", uid, <<>>) >>)
            EXCEPT !.spawn = Task("set_select_domain", uid, <<>>),
                   !.buttons = {DomainButton(Zones[i].id) : i \in 1..Len(Zones)}]

\* enter_subdomain (lines 99-106) up to callback.message.answer
enter_subdomain(uid, data, c) ==
    LET zone_id == Split(data, Underscore)[2]
        found == SelectSeq(Zones, LAMBDA z : z.id = zone_id)
    IN IF c = 1
       THEN Stay("enter_subdomain", << Ev("cf.zones.get", uid, <<>>),
                                       Ev("raise", uid, CfError) >>)
       ELSE IF found = <<>>
       THEN \* line 102: next() on an empty generator
            Stay("enter_subdomain", << Ev("cf.zones.get", uid, <<>>),
                                       Ev("raise", uid, <<"S", "t", "o", "p">>) >>)
       ELSE [Stay("enter_subdomain", << Ev("cf.zones.get", uid, <<>>),
                                        Ev("answer:enter_name", uid, <<>>) >>)
               EXCEPT !.fsm = UpdateData(fsm, uid, zone_id, found[1].name),
                      !.spawn = Task("set_enter_subdomain", uid, <<>>)]

\* create_subdomain (lines 108-143) up to message.answer
create_subdomain(uid, text, c) ==
    LET subdomain == Lower(Strip(text))
        data == fsm[uid].data
        domain == data.domain
        full_domain == FullDomain(subdomain, domain)
        ins == InsertSub(subdomains, subdomain, domain, uid)
        record == [zone |-> data.zone_id, name |-> full_domain]
        select == Ev("subdomains.select", uid, full_domain)
        post == Ev("cf.dns.post", uid, full_domain)
        insert == Ev("subdomains.insert", uid, full_domain)
    IN IF ~data.has
       THEN \* line 113: KeyError, outside the try
            Stay("create_subdomain", << Ev("raise", uid, <<"K", "e", "y">>) >>)
       ELSE IF SelectSub(subdomains, subdomain, domain) # {}
       THEN \* lines 119-121: answer and return; line 143 is not reached
            Stay("create_subdomain", << select, Ev("answer:taken", uid, <<>>) >>)
       ELSE IF c = 1
       THEN \* line 125 raises; lines 140-141
            [Stay("create_subdomain", << select, post, Ev("answer:error", uid, CfError) >>)
               EXCEPT !.spawn = Task("clear", uid, <<>>)]
       ELSE IF ~ins.ok
       THEN \* line 133 raises; lines 140-141
            [Stay("create_subdomain",
                  << select, post, insert, Ev("answer:error", uid, DbError) >>)
               EXCEPT !.dns = dns \cup {record},
                      !.spawn = Task("clear", uid, <<>>)]
       ELSE \* lines 125-137
            [Stay("create_subdomain",
                  << select, post, insert, Ev("commit", uid, <<>>),
                     Ev("answer:success", uid, full_domain) >>)
               EXCEPT !.dns = dns \cup {record},
                      !.subdomains = ins.tbl,
                      !.spawn = Task("log_created", uid, full_domain)]

\* delete_subdomain (lines 146-169) up to message.answer
delete_subdomain(uid, text) ==
    LET subs == SelectSubsOf(subdomains, uid)
    IN IF subs = {}
       THEN Stay("delete_subdomain", << Ev("subdomains.select", uid, <<>>),
                                        Ev("answer:no_subdomains", uid, <<>>) >>)
       ELSE [Stay("delete_subdomain", << Ev("subdomains.select", uid, <<>>),
                                         Ev("answer:select_delete", uid, <<>>) >>)
               EXCEPT !.spawn = Task("set_confirm_delete", uid, <<>>),
                      !.buttons = {DeleteButton(r.subdomain, r.domain) : r \in subs}]

\* confirm_delete (lines 171-193) up to callback.message.answer
confirm_delete(uid, data, c) ==
    LET parts == Split(data, Underscore)
        sub == parts[2]
        domain == parts[3]
        full_domain == FullDomain(sub, domain)
        del == DeleteSub(subdomains, sub, domain, uid)
        found == SelectSeq(Zones, LAMBDA z : z.name = domain)
        zone_id == found[1].id
        records == {r \in dns : r.zone = zone_id /\ r.name = full_domain}
        deleted == Ev("subdomains.delete", uid, full_domain)
        zones == Ev("cf.zones.get", uid, <<>>)
        get == Ev("cf.dns.get", uid, full_domain)
        delete == Ev("cf.dns.delete", uid, full_domain)
        raise == Ev("raise", uid, CfError)
        gone == [Stay("confirm_delete", <<>>) EXCEPT !.subdomains = del.tbl]
    IN IF Len(parts) # 3
       THEN \* line 173: ValueError, the unpacking wants three parts
            Stay("confirm_delete", << Ev("raise", uid, <<"V", "a", "l", "u", "e">>) >>)
       ELSE IF del.rowcount = 0
       THEN \* lines 181-183
            Stay("confirm_delete", << deleted, Ev("answer:not_found", uid, <<>>) >>)
       ELSE IF c = 1
       THEN [gone EXCEPT !.trace = << deleted, zones, raise >>]
       ELSE IF found = <<>>
       THEN \* line 186: next() on an empty generator
            [gone EXCEPT !.trace = << deleted, zones,
                                      Ev("raise", uid, <<"S", "t", "o", "p">>) >>]
       ELSE IF c = 2
       THEN [gone EXCEPT !.trace = << deleted, zones, get, raise >>]
       ELSE IF records = {}
       THEN \* line 188: nothing to delete
            [gone EXCEPT !.trace = << deleted, zones, get, Ev("commit", uid, <<>>),
                                      Ev("answer:deleted", uid, full_domain) >>,
                         !.spawn = Task("log_deleted", uid, full_domain)]
       ELSE IF c = 3
       THEN [gone EXCEPT !.trace = << deleted, zones, get, delete, raise >>]
       ELSE [gone EXCEPT !.dns = dns \ {CHOOSE r \in records : TRUE},
                         !.trace = << deleted, zones, get, delete, Ev("commit", uid, <<>>),
                                      Ev("answer:deleted", uid, full_domain) >>,
                         !.spawn = Task("log_deleted", uid, full_domain)]

\* approve_user (lines 196-209); c = 1 when bot.send_message raises
approve_user(uid, text, c) ==
    LET toks == SplitWS(text)
        arg == IF Len(toks) >= 2 THEN ParseInt(toks[2]) ELSE [ok |-> FALSE, val |-> 0]
        user_id == arg.val
    IN IF \A i \in 1..Len(ADMIN_IDS) : ADMIN_IDS[i] # uid
       THEN \* lines 198-199
            Stay("approve_user", <<>>)
       ELSE IF ~arg.ok
       THEN \* line 202 raises IndexError or ValueError; lines 208-209
            Stay("approve_user", << Ev("answer:usage", uid, <<>>) >>)
       ELSE [Stay("approve_user",
                  << Ev("users.update", uid, IntToStr(user_id)),
                     Ev("commit", uid, <<>>),
                     Ev("answer:approved", uid, IntToStr(user_id)) >>
                  \o (IF c = 1 THEN << Ev("answer:usage", uid, <<>>) >>
                      ELSE << Ev("send:approved", user_id, <<>>) >>))
               EXCEPT !.users = UpdateApproved(users, user_id)]

(***************************************************************************)
(* auth_middleware (lines 51-68) and the routing behind it.                *)
(***************************************************************************)
\* the handler the dispatcher picks for an update of an approved user
Route(uid, kind, input) ==
    IF kind = "message" THEN RouteMessage(input, fsm[uid].state)
    ELSE RouteCallback(input)

\* handler(event, data)
Dispatch(uid, kind, input, c) ==
    LET h == Route(uid, kind, input)
    IN CASE h = "start" -> start(uid, input)
         [] h = "select_domain" -> select_domain(uid, input, c)
         [] h = "enter_subdomain" -> enter_subdomain(uid, input, c)
         [] h = "create_subdomain" -> create_subdomain(uid, input, c)
         [] h = "delete_subdomain" -> delete_subdomain(uid, input)
         [] h = "confirm_delete" -> confirm_delete(uid, input, c)
         [] h = "approve_user" -> approve_user(uid, input, c)
         [] OTHER -> unhandled(uid, input)

\* the gate looking only for the row, its status not compared
auth_middleware_RowOnly(uid, kind, input, c) ==
    LET ins == InsertUser(users, uid)
    IN IF SelectStatus(users, uid) = {}
       THEN [Stay("auth_middleware",
                  << Ev("users.insert", uid, <<>>),
                     Ev("commit", uid, <<>>),
                     Ev("send:new_user", ADMIN_IDS[1], IntToStr(uid)),
                     Ev("answer:pending", uid, <<>>) >>)
               EXCEPT !.gate = "register", !.users = ins.tbl]
       ELSE Dispatch(uid, kind, input, c)

auth_middleware(uid, kind, input, c) ==
    LET result == SelectStatus(users, uid)
        ins == InsertUser(users, uid)
    IN IF result = {}
       THEN \* lines 57-62
            IF ins.ok
            THEN [Stay("auth_middleware",
                       << Ev("users.insert", uid, <<>>),
                          Ev("commit", uid, <<>>),
                          Ev("send:new_user", ADMIN_IDS[1], IntToStr(uid)),
                          Ev("answer:pending", uid, <<>>) >>)
                    EXCEPT !.gate = "register", !.users = ins.tbl]
            ELSE [Stay("auth_middleware", << Ev("users.insert", uid, <<>>),
                                             Ev("raise", uid, DbError) >>)
                    EXCEPT !.gate = "register"]
       ELSE IF \E r \in result : r.status # "approved"
       THEN \* lines 64-66
            [Stay("auth_middleware", << Ev("answer:not_approved", uid, <<>>) >>)
               EXCEPT !.gate = "reject"]
       ELSE \* line 68
            Dispatch(uid, kind, input, c)

(***************************************************************************)
(* Actions.                                                                *)
(***************************************************************************)
LogPcs == {"log_created", "log_deleted"}

\* rows of logs written or about to be written by a suspended handler
LogDemand ==
    Len(logs) + BagCardinality([t \in {x \in DOMAIN tasks : x.pc \in LogPcs} |-> tasks[t]])

\* the bounds leave room for the continuation o suspends in
Room(o) ==
    \/ o.spawn = NoTask
    \/ /\ BagCardinality(tasks) < MaxTasks
       /\ o.spawn.pc \in LogPcs => LogDemand < MaxLog

\* conn.commit() makes every statement run on the connection so far
\* durable; a segment that ends without it leaves its statements in the
\* open transaction
Committed(o) == IF \E i \in 1..Len(o.trace) : o.trace[i].op = "commit"
                THEN o.subdomains ELSE disk

\* the first segment of an update runs to its await
Commit(o) ==
    /\ Room(o)
    /\ users' = o.users
    /\ subdomains' = o.subdomains
    /\ dns' = o.dns
    /\ fsm' = o.fsm
    /\ tasks' = IF o.spawn = NoTask THEN tasks ELSE tasks (+) SetToBag({o.spawn})
    /\ logs' = logs
    /\ disk' = Committed(o)

\* the gate forwarded the update and handler h took it
Takes(o, h) == o.gate = "forward" /\ o.handler = h

\* an update of an identity that has no row: whatever the update is, the
\* gate registers the identity and returns
GateRegister(uid) ==
    \E o \in {auth_middleware(uid, "message", <<>>, 0)} :
        /\ o.gate = "register"
        /\ Commit(o)

\* an update of an identity whose row is not approved
GateReject(uid) ==
    \E o \in {auth_middleware(uid, "message", <<>>, 0)} :
        /\ o.gate = "reject"
        /\ Commit(o)

Start(uid, text) ==
    \E o \in {auth_middleware(uid, "message", text, 0)} :
        /\ Takes(o, "start")
        /\ Commit(o)

Unhandled(uid, text) ==
    \E o \in {auth_middleware(uid, "message", text, 0)} :
        /\ Takes(o, "unhandled")
        /\ Commit(o)

SelectDomain(uid, text) ==
    \E c \in 0..1 : \E o \in {auth_middleware(uid, "message", text, c)} :
        /\ Takes(o, "select_domain")
        /\ Commit(o)

EnterSubdomain(uid, data) ==
    \E c \in 0..1 : \E o \in {auth_middleware(uid, "callback", data, c)} :
        /\ Takes(o, "enter_subdomain")
        /\ Commit(o)

CreateSubdomain(uid, text) ==
    \E c \in 0..1 : \E o \in {auth_middleware(uid, "message", text, c)} :
        /\ Takes(o, "create_subdomain")
        /\ Commit(o)

DeleteSubdomain(uid, text) ==
    \E o \in {auth_middleware(uid, "message", text, 0)} :
        /\ Takes(o, "delete_subdomain")
        /\ Commit(o)

ConfirmDelete(uid, data) ==
    \E c \in 0..3 : \E o \in {auth_middleware(uid, "callback", data, c)} :
        /\ Takes(o, "confirm_delete")
        /\ Commit(o)

ApproveUser(uid, text) ==
    \E c \in 0..1 : \E o \in {auth_middleware(uid, "message", text, c)} :
        /\ Takes(o, "approve_user")
        /\ Commit(o)

\* the sessions after continuation t has run on sessions ctx
ResumeFsm(t, ctx) ==
    CASE t.pc = "set_select_domain" -> SetState(ctx, t.user, "select_domain")      \* line 97
      [] t.pc = "set_enter_subdomain" -> SetState(ctx, t.user, "enter_subdomain")  \* line 106
      [] t.pc = "set_confirm_delete" -> SetState(ctx, t.user, "confirm_delete")    \* line 169
      [] t.pc = "log_created" -> ClearState(ctx, t.user)                           \* line 143
      [] t.pc = "clear" -> ClearState(ctx, t.user)                                 \* line 143
      [] OTHER -> ctx

\* table logs after continuation t has run on table tbl
ResumeLogs(t, tbl) ==
    CASE t.pc = "log_created" -> LogInsert(tbl, t.user, CreatedText(t.name))       \* line 138
      [] t.pc = "log_deleted" -> LogInsert(tbl, t.user, DeletedText(t.name))       \* line 193
      [] OTHER -> tbl

\* the second segment of a handler: what runs after the answer returns
Resume(t) ==
    /\ t \in BagToSet(tasks)
    /\ tasks' = tasks (-) SetToBag({t})
    /\ fsm' = ResumeFsm(t, fsm)
    /\ logs' = ResumeLogs(t, logs)
    /\ disk' = IF t.pc \in LogPcs THEN subdomains ELSE disk                        \* line 216
    /\ UNCHANGED <<users, subdomains, dns>>

\* run_polling is cancelled at an await and the program is started again:
\* the suspended handlers and the sessions of MemoryStorage are lost, the
\* open transaction of the connection is rolled back, the database file and
\* the provider's records stay
Restart ==
    /\ subdomains' = disk
    /\ fsm' = [u \in Users |-> NoSession]
    /\ tasks' = EmptyBag
    /\ UNCHANGED <<users, logs, dns, disk>>

Next ==
    \/ \E u \in Users : GateRegister(u)
    \/ \E u \in Users : GateReject(u)
    \/ \E u \in Users, t \in MessageTexts : Start(u, t)
    \/ \E u \in Users, t \in MessageTexts : Unhandled(u, t)
    \/ \E u \in Users, t \in MessageTexts : SelectDomain(u, t)
    \/ \E u \in Users, d \in CallbackDatas : EnterSubdomain(u, d)
    \/ \E u \in Users, t \in MessageTexts : CreateSubdomain(u, t)
    \/ \E u \in Users, t \in MessageTexts : DeleteSubdomain(u, t)
    \/ \E u \in Users, d \in CallbackDatas : ConfirmDelete(u, d)
    \/ \E u \in Users, t \in MessageTexts : ApproveUser(u, t)
    \/ \E t \in BagToSet(tasks) : Resume(t)
    \/ Restart

Spec == Init /\ [][Next]_vars

(***************************************************************************)
(* Specifications over narrower sets of inputs.  Each keeps the actions    *)
(* its inputs can start.                                                   *)
(***************************************************************************)
\* the gate and the admin command, with the commands that need no session
AccessTexts == {T_start, T_new, T_delete, T_approve2, T_approveBad, T_nameA}

NextAccess ==
    \/ \E u \in Users : GateRegister(u)
    \/ \E u \in Users : GateReject(u)
    \/ \E u \in Users, t \in AccessTexts : Start(u, t)
    \/ \E u \in Users, t \in AccessTexts : Unhandled(u, t)
    \/ \E u \in Users, t \in AccessTexts : SelectDomain(u, t)
    \/ \E u \in Users, t \in AccessTexts : DeleteSubdomain(u, t)
    \/ \E u \in Users, t \in AccessTexts : ApproveUser(u, t)
    \/ \E t \in BagToSet(tasks) : Resume(t)

SpecAccess == Init /\ [][NextAccess]_vars

\* the claim conversation: /new, a zone button, a name
ClaimTexts == {T_new, T_nameA, T_nameAB}
ClaimDatas == {DomainButton(Zones[i].id) : i \in 1..Len(Zones)}

InitClaim ==
    /\ users \in UserTables(Claimers)
    /\ subdomains = {}
    /\ logs = <<>>
    /\ dns = {}
    /\ fsm = [u \in Users |-> NoSession]
    /\ tasks = EmptyBag
    /\ disk = {}

NextClaim ==
    \/ \E u \in Claimers : GateRegister(u)
    \/ \E u \in Claimers : GateReject(u)
    \/ \E u \in Claimers, t \in ClaimTexts : Unhandled(u, t)
    \/ \E u \in Claimers, t \in ClaimTexts : SelectDomain(u, t)
    \/ \E u \in Claimers, d \in ClaimDatas : EnterSubdomain(u, d)
    \/ \E u \in Claimers, t \in ClaimTexts : CreateSubdomain(u, t)
    \/ \E t \in BagToSet(tasks) : Resume(t)

SpecClaim == InitClaim /\ [][NextClaim]_vars

\* the release conversation, started on a database that earlier runs of the
\* process have filled: rows of approved owners, and the DNS records of
\* those rows that the provider still holds
ReleaseTexts == {T_delete}
ReleaseDatas == {DeleteButton(n, Zones[i].name) : n \in ButtonNames, i \in 1..Len(Zones)}

RowSets(tbl) ==
    LET owners == {r.user_id : r \in {x \in tbl : x.status = "approved"}}
        keys == {<<n, Zones[i].name>> : n \in ButtonNames, i \in 1..Len(Zones)}
    IN {{}} \cup {{[subdomain |-> k[1], domain |-> k[2], user_id |-> f[k]] : k \in ks} :
                      f \in [keys -> owners], ks \in SUBSET keys}

RecordOf(r) ==
    [zone |-> Zones[CHOOSE i \in 1..Len(Zones) : Zones[i].name = r.domain].id,
     name |-> FullDomain(r.subdomain, r.domain)]

InitRelease ==
    /\ users \in UserTables(Claimers)
    /\ subdomains \in RowSets(users)
    /\ dns \in SUBSET {RecordOf(r) : r \in subdomains}
    /\ logs = <<>>
    /\ fsm = [u \in Users |-> NoSession]
    /\ tasks = EmptyBag
    /\ disk = subdomains

NextRelease ==
    \/ \E u \in Claimers : GateRegister(u)
    \/ \E u \in Claimers : GateReject(u)
    \/ \E u \in Claimers, t \in ReleaseTexts : DeleteSubdomain(u, t)
    \/ \E u \in Claimers, d \in ReleaseDatas : ConfirmDelete(u, d)
    \/ \E t \in BagToSet(tasks) : Resume(t)
    \/ Restart

SpecRelease == InitRelease /\ [][NextRelease]_vars

\* claim and release together
FlowTexts == {T_new, T_delete, T_nameA, T_nameAB}

NextFlow ==
    \/ \E u \in Claimers : GateRegister(u)
    \/ \E u \in Claimers : GateReject(u)
    \/ \E u \in Claimers, t \in FlowTexts : Unhandled(u, t)
    \/ \E u \in Claimers, t \in FlowTexts : SelectDomain(u, t)
    \/ \E u \in Claimers, d \in CallbackDatas : EnterSubdomain(u, d)
    \/ \E u \in Claimers, t \in FlowTexts : CreateSubdomain(u, t)
    \/ \E u \in Claimers, t \in FlowTexts : DeleteSubdomain(u, t)
    \/ \E u \in Claimers, d \in CallbackDatas : ConfirmDelete(u, d)
    \/ \E t \in BagToSet(tasks) : Resume(t)

SpecFlow == InitClaim /\ [][NextFlow]_vars

\* the commands sent inside and outside a claim conversation
SessionTexts == {T_start, T_new, T_delete, T_approve2}

NextSession ==
    \/ \E u \in Claimers : GateRegister(u)
    \/ \E u \in Claimers : GateReject(u)
    \/ \E u \in Claimers, t \in SessionTexts : Start(u, t)
    \/ \E u \in Claimers, t \in SessionTexts : SelectDomain(u, t)
    \/ \E u \in Claimers, d \in ClaimDatas : EnterSubdomain(u, d)
    \/ \E u \in Claimers, t \in SessionTexts : CreateSubdomain(u, t)
    \/ \E u \in Claimers, t \in SessionTexts : DeleteSubdomain(u, t)
    \/ \E u \in Claimers, t \in SessionTexts : ApproveUser(u, t)
    \/ \E t \in BagToSet(tasks) : Resume(t)

SpecSession == InitClaim /\ [][NextSession]_vars

\* claims and releases of two users on the same name, with restarts.  The
\* keyboards of an earlier /new and /delete stay in the chat, so a claim
\* starts at a zone button and a release at a delete button.
LifeTexts == {T_nameA}

LifeDatas == ClaimDatas \cup {DeleteButton(<<"a">>, Zones[i].name) : i \in 1..Len(Zones)}

NextLife ==
    \/ \E u \in Claimers : GateRegister(u)
    \/ \E u \in Claimers : GateReject(u)
    \/ \E u \in Claimers, t \in LifeTexts : Unhandled(u, t)
    \/ \E u \in Claimers, d \in LifeDatas : EnterSubdomain(u, d)
    \/ \E u \in Claimers, t \in LifeTexts : CreateSubdomain(u, t)
    \/ \E u \in Claimers, d \in LifeDatas : ConfirmDelete(u, d)
    \/ \E t \in BagToSet(tasks) : Resume(t)
    \/ Restart

SpecLife == InitClaim /\ [][NextLife]_vars

\* the same claims and releases in one run of the program, every handler
\* running to its end
NextRun ==
    \/ \E u \in Claimers : GateRegister(u)
    \/ \E u \in Claimers : GateReject(u)
    \/ \E u \in Claimers, t \in LifeTexts : Unhandled(u, t)
    \/ \E u \in Claimers, d \in LifeDatas : EnterSubdomain(u, d)
    \/ \E u \in Claimers, t \in LifeTexts : CreateSubdomain(u, t)
    \/ \E u \in Claimers, d \in LifeDatas : ConfirmDelete(u, d)
    \/ \E t \in BagToSet(tasks) : Resume(t)

SpecRun == InitClaim /\ [][NextRun]_vars

(***************************************************************************)
(* Properties.                                                             *)
(***************************************************************************)
\* the handler outcome o did op
Does(o, op) == \E i \in 1..Len(o.trace) : o.trace[i].op = op

\* the place of op in what o did, 0 when o did not do it
Place(o, op) ==
    IF Does(o, op) THEN CHOOSE i \in 1..Len(o.trace) : o.trace[i].op = op ELSE 0

CfOps == {"cf.zones.get", "cf.dns.post", "cf.dns.get", "cf.dns.delete"}

NoDnsCall(o) == \A i \in 1..Len(o.trace) : o.trace[i].op \notin CfOps

Raises(o) == Does(o, "raise")

\* the texts users type as names, and the name each asks for
NameTexts == {T_nameA, T_nameAB}
NameAsked(t) == IF t = T_nameA THEN <<"a">> ELSE <<"a", "_", "b">>

Held(sub, domain) == {r \in subdomains : r.subdomain = sub /\ r.domain = domain}

Row(sub, domain, uid) == [subdomain |-> sub, domain |-> domain, user_id |-> uid]

\* uid's next message t reaches create_subdomain with a zone selected
AtClaimStep(uid, t) ==
    /\ auth_middleware(uid, "message", t, 0).gate = "forward"
    /\ auth_middleware(uid, "message", t, 0).handler = "create_subdomain"
    /\ fsm[uid].data.has

\* C1: claim uniqueness.  No two rows of subdomains share (subdomain,
\* domain); and in every reachable state, so under every interleaving of
\* the claim steps of several users, a claim step for a pair that has a row
\* answers "already taken" and inserts nothing, while a claim step for a
\* pair that has none inserts exactly the caller's row when the DNS call
\* succeeds and nothing when it fails.
C1_ClaimUnique ==
    /\ \A r1, r2 \in subdomains :
          (r1.subdomain = r2.subdomain /\ r1.domain = r2.domain) => r1 = r2
    /\ \A u \in Claimers, t \in NameTexts, c \in 0..1 :
          AtClaimStep(u, t) =>
             LET o == auth_middleware(u, "message", t, c)
                 d == fsm[u].data.domain
             IN IF Held(NameAsked(t), d) # {}
                THEN Does(o, "answer:taken") /\ o.subdomains = subdomains
                ELSE IF c = 0
                THEN /\ o.subdomains = subdomains \cup {Row(NameAsked(t), d, u)}
                     /\ Does(o, "answer:success")
                ELSE o.subdomains = subdomains

\* a's claim handler is suspended after inserting its row, and b's claim
\* step for the same pair is answered "already taken"
C1_Witness ==
    \E a, b \in Claimers, t \in NameTexts :
        /\ a # b
        /\ \E k \in BagToSet(tasks) : k.pc = "log_created" /\ k.user = a
        /\ AtClaimStep(b, t)
        /\ Row(NameAsked(t), fsm[b].data.domain, a) \in subdomains
        /\ Does(auth_middleware(b, "message", t, 0), "answer:taken")

ExpectedFull(t, domain) == NameAsked(t) \o <<".">> \o domain

\* the sessions once the handler that left outcome o has finished
SessionsAfter(o) == IF o.spawn = NoTask THEN o.fsm ELSE ResumeFsm(o.spawn, o.fsm)

\* C5: a failing DNS record creation in the claim step.  Whenever a claim
\* step for a free pair has its dns_records.post raise, the step inserts no
\* row and leaves the tables and the records as they were, answers with the
\* error carrying str(e), and suspends in a continuation that clears the
\* session and appends nothing to logs.
C5_DnsFailureOnClaim ==
    /\ \A u \in Claimers, t \in NameTexts :
          (AtClaimStep(u, t) /\ Held(NameAsked(t), fsm[u].data.domain) = {}) =>
             LET o == auth_middleware(u, "message", t, 1)
             IN /\ o.subdomains = subdomains
                /\ o.dns = dns
                /\ o.users = users
                /\ ~Does(o, "subdomains.insert")
                /\ Does(o, "answer:error")
                /\ o.trace[Place(o, "answer:error")].s = CfError
                /\ o.spawn = Task("clear", u, <<>>)
    /\ \A k \in BagToSet(tasks) :
          k.pc = "clear" => /\ ResumeFsm(k, fsm)[k.user] = NoSession
                            /\ ResumeLogs(k, logs) = logs

\* u's DNS call has failed: its handler is suspended before state.clear(),
\* the session still awaits the name, and no row was inserted for it
C5_Witness ==
    \E u \in Claimers, t \in NameTexts :
        /\ Task("clear", u, <<>>) \in BagToSet(tasks)
        /\ fsm[u].state = "enter_subdomain"
        /\ fsm[u].data.has
        /\ Held(NameAsked(t), fsm[u].data.domain) = {}
        /\ logs = <<>>

\* C6: a claim step for a pair that already has a row, whoever owns it,
\* answers "already taken", makes no DNS call, leaves subdomains, users and
\* the DNS records unchanged and suspends in no continuation, so appends
\* nothing to logs.
C6_TakenChangesNothing ==
    \A u \in Claimers, t \in NameTexts, c \in 0..1 :
        (AtClaimStep(u, t) /\ Held(NameAsked(t), fsm[u].data.domain) # {}) =>
           LET o == auth_middleware(u, "message", t, c)
           IN /\ Does(o, "answer:taken")
              /\ NoDnsCall(o)
              /\ ~Does(o, "subdomains.insert")
              /\ o.subdomains = subdomains
              /\ o.dns = dns
              /\ o.users = users
              /\ o.spawn = NoTask

\* a claim step of u meets a row of its own and one of another user
C6_Witness ==
    \E u, v \in Claimers, t1, t2 \in NameTexts :
        /\ u # v
        /\ AtClaimStep(u, t1) /\ AtClaimStep(u, t2)
        /\ Row(NameAsked(t1), fsm[u].data.domain, u) \in subdomains
        /\ Row(NameAsked(t2), fsm[u].data.domain, v) \in subdomains
        /\ Does(auth_middleware(u, "message", t1, 0), "answer:taken")
        /\ Does(auth_middleware(u, "message", t2, 0), "answer:taken")

\* C7: the session is cleared on every terminal outcome of the claim step:
\* once the handler has finished (success, DNS failure or "already taken"),
\* the session of the user holds no state and no zone id or domain.
C7_SessionCleared ==
    \A u \in Claimers, t \in NameTexts, c \in 0..1 :
        AtClaimStep(u, t) =>
           SessionsAfter(auth_middleware(u, "message", t, c))[u] = NoSession

\* C8: the successful claim.  Selecting a zone stores its id and name in the
\* session and leaves the session awaiting the name; a claim step for a free
\* pair whose DNS call succeeds creates the record s.d in the selected zone,
\* then inserts the row (s, d, U), answers with s.d, and suspends in a
\* continuation that appends "Created s.d" for U to logs; s is the text
\* stripped and lowercased.
C8_ClaimSucceeds ==
    /\ \A u \in Claimers, i \in 1..Len(Zones) :
          LET o == auth_middleware(u, "callback", DomainButton(Zones[i].id), 0)
          IN o.gate = "forward" =>
                /\ o.fsm[u].data = [has |-> TRUE, zone_id |-> Zones[i].id,
                                    domain |-> Zones[i].name]
                /\ SessionsAfter(o)[u].state = "enter_subdomain"
    /\ \A u \in Claimers, t \in NameTexts :
          (AtClaimStep(u, t) /\ Held(NameAsked(t), fsm[u].data.domain) = {}) =>
             LET o == auth_middleware(u, "message", t, 0)
                 d == fsm[u].data.domain
                 full == ExpectedFull(t, d)
             IN /\ o.dns = dns \cup {[zone |-> fsm[u].data.zone_id, name |-> full]}
                /\ o.subdomains = subdomains \cup {Row(NameAsked(t), d, u)}
                /\ 0 < Place(o, "cf.dns.post")
                /\ Place(o, "cf.dns.post") < Place(o, "subdomains.insert")
                /\ Place(o, "subdomains.insert") < Place(o, "answer:success")
                /\ o.trace[Place(o, "cf.dns.post")].s = full
                /\ o.trace[Place(o, "answer:success")].s = full
                /\ o.spawn = Task("log_created", u, full)
                /\ ResumeLogs(o.spawn, logs) =
                      Append(logs, [user_id |-> u,
                                    activity |-> <<"C", "r", "e", "a", "t", "e", "d", " ">> \o full])

\* the claim of " A" under x.y by u has run to its end: record, row, log
\* entry, and the session cleared
C8_Witness ==
    \E u \in Claimers :
        /\ Row(<<"a">>, <<"x", ".", "y">>, u) \in subdomains
        /\ [zone |-> <<"z">>, name |-> <<"a", ".", "x", ".", "y">>] \in dns
        /\ \E i \in 1..Len(logs) :
              logs[i] = [user_id |-> u,
                         activity |-> <<"C", "r", "e", "a", "t", "e", "d", " ",
                                        "a", ".", "x", ".", "y">>]
        /\ fsm[u] = NoSession
        /\ tasks = EmptyBag

\* the rows of users for identity uid
RowsOf(tbl, uid) == {r \in tbl : r.user_id = uid}

Pending(uid) == [user_id |-> uid, status |-> "pending"]

Approved(uid) == [user_id |-> uid, status |-> "approved"]

\* every update an identity can send: kind and content
Intents ==
    {<<"message", t>> : t \in MessageTexts} \cup {<<"callback", d>> : d \in CallbackDatas}

\* C4: the gate on every intent.  For an identity whose row is approved the
\* gate hands the intent to its handler and the outcome is the handler's,
\* unchanged; for an identity whose row is pending the gate answers "not
\* approved" and returns: no handler runs, no table, DNS record or session
\* changes, no DNS call is made and nothing is appended to logs.
C4_GateByStatus ==
    \A u \in Claimers, e \in Intents, c \in 0..3 :
        LET o == auth_middleware(u, e[1], e[2], c)
        IN /\ Approved(u) \in users =>
                 /\ o.gate = "forward"
                 /\ o = Dispatch(u, e[1], e[2], c)
           /\ Pending(u) \in users =>
                 /\ o.gate = "reject"
                 /\ o.handler = "auth_middleware"
                 /\ o.trace = << Ev("answer:not_approved", u, <<>>) >>
                 /\ o.users = users
                 /\ o.subdomains = subdomains
                 /\ o.dns = dns
                 /\ o.fsm = fsm
                 /\ o.spawn = NoTask

\* an approved identity is in the middle of a claim while a pending one
\* sends the same intents and is turned away
C4_Witness ==
    \E a, p \in Claimers :
        /\ Approved(a) \in users
        /\ Pending(p) \in users
        /\ fsm[a].state = "enter_subdomain"
        /\ subdomains # {}
        /\ \A t \in NameTexts : auth_middleware(p, "message", t, 0).gate = "reject"
        /\ \E t \in NameTexts :
              Takes(auth_middleware(a, "message", t, 0), "create_subdomain")

\* the updates of the access specification
AccessIntents == {<<"message", t>> : t \in AccessTexts}

\* C3: registration and identity uniqueness.  users never holds two rows
\* for one identity.  The first intent of an identity without a row,
\* whatever it is, inserts exactly one row for it with status pending and
\* does not fail on a duplicate key, changes no other row and nothing else,
\* and is not handed to a handler; an intent of an identity that has a row
\* inserts none.  The query and the INSERT run with no await between them,
\* so concurrent first intents are these steps one after another.
C3_RegisterOnce ==
    /\ \A r1, r2 \in users : r1.user_id = r2.user_id => r1 = r2
    /\ \A u \in Users, e \in AccessIntents, c \in 0..1 :
          LET o == auth_middleware(u, e[1], e[2], c)
          IN IF RowsOf(users, u) = {}
             THEN /\ o.gate = "register"
                  /\ o.handler = "auth_middleware"
                  /\ o.users = users \cup {Pending(u)}
                  /\ Does(o, "users.insert")
                  /\ ~Raises(o)
                  /\ o.subdomains = subdomains /\ o.dns = dns /\ o.fsm = fsm
                  /\ o.spawn = NoTask
                  /\ Cardinality(RowsOf(o.users, u)) = 1
             ELSE /\ o.gate # "register"
                  /\ ~Does(o, "users.insert")
                  /\ Cardinality(RowsOf(o.users, u)) = 1

\* while the handler of another identity is suspended, identity u without
\* a row sends an intent and is registered as pending next to the rows
\* already there
C3_Witness ==
    \E u, v \in Users :
        /\ u # v
        /\ RowsOf(users, u) = {}
        /\ RowsOf(users, v) # {}
        /\ \E k \in BagToSet(tasks) : k.user = v
        /\ auth_middleware(u, "message", T_start, 0).gate = "register"
        /\ auth_middleware(u, "message", T_start, 0).users = users \cup {Pending(u)}

\* C10: approving is repeatable and ends in approved.  After an admin's
\* /approve N has run, N has exactly one row, its status is approved, and
\* running the command again changes nothing and raises nothing.
C10_ApproveRepeatable ==
    \A u \in Users, c \in 0..1 :
        LET o == auth_middleware(u, "message", T_approve2, c)
        IN (Takes(o, "approve_user") /\ Does(o, "answer:approved")) =>
              /\ RowsOf(o.users, 2) = {Approved(2)}
              /\ UpdateApproved(o.users, 2) = o.users
              /\ ~Raises(o)

\* the release intent for row r, as the button of /delete carries it
ReleaseOf(r) == DeleteButton(r.subdomain, r.domain)

NameOf(r) == r.subdomain \o <<".">> \o r.domain

\* C2: release ownership.  A release for an existing row (s, d) by a user
\* who is not its owner removes no row, answers "not found" and makes no
\* DNS call; a release by the owner removes exactly the row (s, d) and
\* leaves every other row unchanged.
C2_ReleaseOwnership ==
    \A u \in Claimers, r \in subdomains, c \in 0..3 :
        LET o == auth_middleware(u, "callback", ReleaseOf(r), c)
        IN o.gate = "forward" =>
              IF u # r.user_id
              THEN /\ o.subdomains = subdomains
                   /\ Does(o, "answer:not_found")
                   /\ NoDnsCall(o)
              ELSE o.subdomains = subdomains \ {r}

\* C9: the release by the owner when the DNS calls succeed.  The row is
\* removed first, then the record named s.d is looked up in the zone of d
\* and deleted if it is there, then the success response carrying s.d is
\* sent and the continuation appends "Deleted s.d" to logs; when the zone
\* holds no such record the release is a success all the same.
C9_ReleaseSucceeds ==
    \A u \in Claimers, r \in subdomains :
        LET o == auth_middleware(u, "callback", ReleaseOf(r), 0)
            rec == RecordOf(r)
        IN (o.gate = "forward" /\ u = r.user_id) =>
              /\ o.subdomains = subdomains \ {r}
              /\ 0 < Place(o, "subdomains.delete")
              /\ Place(o, "subdomains.delete") < Place(o, "cf.zones.get")
              /\ Place(o, "cf.zones.get") < Place(o, "cf.dns.get")
              /\ o.trace[Place(o, "cf.dns.get")].s = NameOf(r)
              /\ IF rec \in dns
                 THEN /\ Place(o, "cf.dns.get") < Place(o, "cf.dns.delete")
                      /\ Place(o, "cf.dns.delete") < Place(o, "answer:deleted")
                      /\ o.dns = dns \ {rec}
                 ELSE /\ ~Does(o, "cf.dns.delete")
                      /\ Place(o, "cf.dns.get") < Place(o, "answer:deleted")
                      /\ o.dns = dns
              /\ o.trace[Place(o, "answer:deleted")].s = NameOf(r)
              /\ o.spawn = Task("log_deleted", u, NameOf(r))
              /\ ResumeLogs(o.spawn, logs) =
                    Append(logs, [user_id |-> u,
                                  activity |-> <<"D", "e", "l", "e", "t", "e", "d", " ">> \o NameOf(r)])

\* the Access Gate forwards the intents of identity uid on table tbl
Forwarded(tbl, uid) ==
    /\ SelectStatus(tbl, uid) # {}
    /\ \A r \in SelectStatus(tbl, uid) : r.status = "approved"

\* C11: approval is unconditional.  After an admin's /approve 2 has been
\* answered "approved", users holds an approved row for identity 2, whether
\* or not it held a row for 2 before, so the gate forwards 2's next intent.
C11_ApproveUnconditional ==
    \A u \in Users, c \in 0..1 :
        LET o == auth_middleware(u, "message", T_approve2, c)
        IN (Takes(o, "approve_user") /\ Does(o, "answer:approved")) =>
              /\ Approved(2) \in o.users
              /\ Forwarded(o.users, 2)

\* what a handler does without sending anything to anyone
SilentOps ==
    CfOps \cup {"users.insert", "users.update", "subdomains.select", "subdomains.insert",
                "subdomains.delete", "commit", "raise"}

\* the messages handler outcome o sent
Sent(o) == {o.trace[i].op : i \in 1..Len(o.trace)} \ SilentOps

IsAdmin(uid) == \E i \in 1..Len(ADMIN_IDS) : ADMIN_IDS[i] = uid

\* C12: /approve by an identity outside the admin set.  When the gate
\* forwards an /approve 2 sent by a non-admin, no row of users changes, no
\* message is sent to the invoker or to identity 2, and no continuation that
\* appends to logs is started.
C12_NonAdminApproveIgnored ==
    \A u \in Claimers, c \in 0..1 :
        LET o == auth_middleware(u, "message", T_approve2, c)
        IN (~IsAdmin(u) /\ o.gate = "forward") =>
              /\ o.users = users
              /\ Sent(o) = {}
              /\ o.spawn.pc \notin LogPcs

\* the handler registered for each command
OwnHandler(t) ==
    CASE t = T_start -> "start"
      [] t = T_new -> "select_domain"
      [] t = T_delete -> "delete_subdomain"
      [] t = T_approve2 -> "approve_user"

\* C18: commands in a session that awaits a name.  Every command sent in
\* state enter_subdomain goes to the handler of that command and is not
\* taken as a name: it creates no DNS record and inserts no row.
C18_CommandsKeepMeaning ==
    \A u \in Claimers, t \in SessionTexts, c \in 0..1 :
        LET o == auth_middleware(u, "message", t, c)
        IN (fsm[u].state = "enter_subdomain" /\ o.gate = "forward") =>
              /\ o.handler = OwnHandler(t)
              /\ ~Does(o, "cf.dns.post")
              /\ o.dns = dns
              /\ o.subdomains = subdomains

\* a DNS call of handler outcome o raised
DnsFailed(o) ==
    \E i \in 1..Len(o.trace) :
        o.trace[i].op \in {"raise", "answer:error"} /\ o.trace[i].s = CfError

\* the intents that make DNS calls: /new, a zone button, a name, a delete button
DnsIntents ==
    {<<"message", t>> : t \in {T_new} \cup NameTexts}
    \cup {<<"callback", d>> : d \in ClaimDatas \cup ReleaseDatas}

\* C13: a failing DNS call, in whichever handler.  When a DNS call of a
\* forwarded intent raises, the handler catches it and answers that user
\* with the error message, makes no DNS call twice and leaves the sessions
\* of the other users as they were.
C13_DnsFailureReported ==
    \A u \in Claimers, e \in DnsIntents, c \in 1..3 :
        LET o == auth_middleware(u, e[1], e[2], c)
        IN (o.gate = "forward" /\ DnsFailed(o)) =>
              /\ ~Raises(o)
              /\ Does(o, "answer:error")
              /\ \A i, j \in 1..Len(o.trace) :
                    (o.trace[i].op \in CfOps /\ o.trace[i].op = o.trace[j].op) => i = j
              /\ \A v \in Users \ {u} : o.fsm[v] = fsm[v]

\* C14: the lifecycle of a row of users.  In every step: a row that exists
\* stays, an approved row stays approved, a row that appears is the pending
\* row the gate inserts for the identity that sent the intent, and a row
\* turns from pending to approved only in an /approve step of an identity
\* that is in the admin set (and whose own row is approved).
C14_LifecycleMonotonic ==
    [][\A v \in Users :
          /\ RowsOf(users, v) # {} => RowsOf(users', v) # {}
          /\ Approved(v) \in users => RowsOf(users', v) = {Approved(v)}
          /\ (RowsOf(users, v) = {} /\ RowsOf(users', v) # {}) =>
                /\ users' = users \cup {Pending(v)}
                /\ auth_middleware(v, "message", <<>>, 0).gate = "register"
          /\ (Pending(v) \in users /\ Pending(v) \notin users') =>
                /\ users' = (users \ {Pending(v)}) \cup {Approved(v)}
                /\ \E a \in Users, t \in AccessTexts, c \in 0..1 :
                      /\ IsAdmin(a)
                      /\ Approved(a) \in users
                      /\ Takes(auth_middleware(a, "message", t, c), "approve_user")
                      /\ auth_middleware(a, "message", t, c).users = users'
      ]_vars

\* the admin is about to approve the pending identity 2 while identity 3,
\* never seen, is about to be registered as pending
C14_Witness ==
    /\ Approved(1) \in users
    /\ Pending(2) \in users
    /\ RowsOf(users, 3) = {}
    /\ auth_middleware(1, "message", T_approve2, 0).users = {Approved(1), Approved(2)}
    /\ auth_middleware(3, "message", T_start, 0).users = users \cup {Pending(3)}
    /\ tasks # EmptyBag

\* the DNS record behind row r: named s.d, in the zone named d
RecordBehind(r) ==
    [zone |-> Zones[CHOOSE i \in 1..Len(Zones) : Zones[i].name = r.domain].id,
     name |-> NameOf(r)]

\* C15: a row only with its record.  In every reachable state of the claims
\* and releases of two users on one name, restarts included, every row
\* (s, d) of subdomains has a DNS record named s.d in the zone of d.
C15_RowHasRecord ==
    \A r \in subdomains :
        /\ \E i \in 1..Len(Zones) : Zones[i].name = r.domain
        /\ RecordBehind(r) \in dns

\* u claimed the name and its release failed at the provider after the row
\* was removed; v then claimed the same name and holds the row
C15_Witness ==
    \E u, v \in Claimers :
        /\ u # v
        /\ subdomains = {Row(<<"a">>, <<"x", ".", "y">>, v)}
        /\ RecordBehind(Row(<<"a">>, <<"x", ".", "y">>, v)) \in dns
        /\ logs = << [user_id |-> u,
                      activity |-> <<"C", "r", "e", "a", "t", "e", "d", " ",
                                     "a", ".", "x", ".", "y">>] >>
        /\ Task("log_created", v, <<"a", ".", "x", ".", "y">>) \in BagToSet(tasks)

\* C16: a release whose DNS lookup or deletion fails after the row is gone.
\* The outcome of such a release holds no row for (s, d), keeps the DNS
\* record, sends no success response and starts no continuation that logs
\* "Deleted"; and the row does not come back: in every step, a row that
\* appears in subdomains is the row a claim step inserts.
C16_FailedReleaseFreesName ==
    /\ [](\A u \in Claimers, r \in subdomains, c \in 1..3 :
             LET o == auth_middleware(u, "callback", ReleaseOf(r), c)
             IN (o.gate = "forward" /\ u = r.user_id /\ DnsFailed(o)) =>
                   /\ {x \in o.subdomains :
                          x.subdomain = r.subdomain /\ x.domain = r.domain} = {}
                   /\ o.dns = dns
                   /\ ~Does(o, "answer:deleted")
                   /\ o.spawn.pc \notin LogPcs)
    /\ [][\A r \in subdomains' \ subdomains :
             \E u \in Claimers, t \in LifeTexts :
                 /\ Does(auth_middleware(u, "message", t, 0), "subdomains.insert")
                 /\ auth_middleware(u, "message", t, 0).subdomains = subdomains'
         ]_vars

\* the entry of logs a finished claim or release of uid on the name full leaves
LogEntry(pc, uid, full) ==
    [user_id |-> uid,
     activity |-> (IF pc = "log_created"
                   THEN <<"C", "r", "e", "a", "t", "e", "d", " ">>
                   ELSE <<"D", "e", "l", "e", "t", "e", "d", " ">>) \o full]

FlowHandlers ==
    {"select_domain", "enter_subdomain", "create_subdomain", "delete_subdomain",
     "confirm_delete"}

\* C19: owners are approved.  In every reachable state the owner of every
\* row of subdomains has an approved row in users, every suspended handler
\* runs for an identity with an approved row, and an intent reaches a
\* handler of the claim or release conversation only when its sender's row
\* is approved.
C19_OwnersApproved ==
    /\ \A r \in subdomains : Approved(r.user_id) \in users
    /\ \A k \in BagToSet(tasks) : Approved(k.user) \in users
    /\ \A u \in Claimers, e \in Intents, c \in 0..1 :
          LET o == auth_middleware(u, e[1], e[2], c)
          IN (o.handler \in FlowHandlers \/ o.subdomains # subdomains) =>
                Approved(u) \in users

\* u, approved, holds a row while the pending identity p sends the same
\* name, a zone button and the delete button of that row, all turned away
C19_Witness ==
    \E u, p \in Claimers :
        /\ Approved(u) \in users
        /\ Pending(p) \in users
        /\ Row(<<"a">>, <<"x", ".", "y">>, u) \in subdomains
        /\ auth_middleware(p, "message", T_nameA, 0).gate = "reject"
        /\ \A d \in LifeDatas : auth_middleware(p, "callback", d, 0).gate = "reject"

NoneApproved(tbl) == \A r \in tbl : r.status # "approved"

\* C20: the gate stands before the admin command too.  An intent gives an
\* identity an approved row only when its sender is in the admin set and
\* the sender's own row is already approved; and in every step, when users
\* holds no approved row before the step it holds none after it.
C20_GateAppliesToAdmins ==
    /\ [](\A u \in Users, e \in AccessIntents, c \in 0..1 :
             LET o == auth_middleware(u, e[1], e[2], c)
             IN (\E v \in Users : Approved(v) \in o.users \ users) =>
                   /\ IsAdmin(u)
                   /\ Approved(u) \in users
                   /\ o.handler = "approve_user")
    /\ [][NoneApproved(users) => NoneApproved(users')]_vars

\* every identity, the admin among them, has been registered and is
\* pending; the admin's /approve 2 is turned away by the gate
C20_Witness ==
    /\ users = {Pending(v) : v \in Users}
    /\ IsAdmin(1)
    /\ auth_middleware(1, "message", T_approve2, 0).gate = "reject"
    /\ auth_middleware(1, "message", T_approve2, 0).users = users

====
